---- MODULE Spec2Model ----
(***************************************************************************)
(* CORD-19 metadata explorer: the batch script (analysis.py) and the       *)
(* Streamlit dashboard (app.py).                                           *)
(*                                                                         *)
(* A text is a sequence of one-character strings.  A cell of a table read  *)
(* by pandas.read_csv is a text or the missing value NaN.  A DataFrame is  *)
(* a record [cols, rows]: the set of its column names and the sequence of  *)
(* its rows; a row keeps in idx the index label read_csv gave it.  Cells   *)
(* of a column the frame does not have hold a filler that nothing reads.   *)
(***************************************************************************)
EXTENDS Integers, Sequences, FiniteSets, TLC

(***************************************************************************)
(* Bounds of the model.                                                    *)
(***************************************************************************)
\* longest table built freely from RowPool
MaxRows == 2
\* most recognised columns a generated header lacks
MaxMissing == 1

(***************************************************************************)
(* Program constants.                                                      *)
(***************************************************************************)
\* .head(15) of the journal counts
TopJournals == 15
\* .head(200) of the displayed tables
DisplayRows == 200
\* journals[:50] in the journal select box
JournalOptions == 50

(***************************************************************************)
(* Texts.                                                                  *)
(***************************************************************************)
NaN == <<"NaN">>

IsNa(v) == v = NaN

Whitespace == {" ", "\t", "\n"}

UpperCase == <<"A","B","C","D","E","F","G","H","I","J","K","L","M",
               "N","O","P","Q","R","S","T","U","V","W","X","Y","Z">>

LowerCase == <<"a","b","c","d","e","f","g","h","i","j","k","l","m",
               "n","o","p","q","r","s","t","u","v","w","x","y","z">>

\* the lower case letter of every upper case letter
LowerOf ==
    [c \in {UpperCase[i] : i \in 1..Len(UpperCase)} |->
        LowerCase[CHOOSE i \in 1..Len(UpperCase) : UpperCase[i] = c]]

\* str.lower() on one character
LowerChar(c) == IF c \in DOMAIN LowerOf THEN LowerOf[c] ELSE c

\* str.lower()
Lower(s) == [i \in 1..Len(s) |-> LowerChar(s[i])]

\* a in b, for two str
Contains(hay, needle) ==
    \E k \in 0..(Len(hay) - Len(needle)) :
        \A i \in 1..Len(needle) : hay[k + i] = needle[i]

\* str(x) of a cell: a text is itself, the float NaN prints as "nan"
PyStr(v) == IF IsNa(v) THEN <<"n","a","n">> ELSE v

\* Series.fillna("")
FillNa(v) == IF IsNa(v) THEN <<>> ELSE v

RECURSIVE SkipSpace(_)
SkipSpace(s) ==
    IF s = <<>> THEN <<>>
    ELSE IF Head(s) \in Whitespace THEN SkipSpace(Tail(s)) ELSE s

RECURSIVE TakeWord(_)
TakeWord(s) ==
    IF s = <<>> THEN <<>>
    ELSE IF Head(s) \in Whitespace THEN <<>>
    ELSE <<Head(s)>> \o TakeWord(Tail(s))

\* str.split() with no separator: runs of whitespace separate the words,
\* leading and trailing whitespace gives no empty word
RECURSIVE Split(_)
Split(s) ==
    LET t == SkipSpace(s)
    IN  IF t = <<>> THEN <<>>
        ELSE LET w == TakeWord(t)
             IN  <<w>> \o Split(SubSeq(t, Len(w) + 1, Len(t)))

\* len(x.split(" ")): every single space separates, the empty text is one
\* word
WordCountOnSpaces(s) == Cardinality({i \in 1..Len(s) : s[i] = " "}) + 1

\* lambda x: len(x.split())
WordCount(s) == Len(Split(s))

Digits == <<"0","1","2","3","4","5","6","7","8","9">>

IsDigit(c) == \E i \in 1..10 : Digits[i] = c

DigitVal(c) == (CHOOSE i \in 1..10 : Digits[i] = c) - 1

\* int(s) for a text of decimal digits
RECURSIVE PyInt(_)
PyInt(s) ==
    IF s = <<>> THEN 0
    ELSE 10 * PyInt(SubSeq(s, 1, Len(s) - 1)) + DigitVal(s[Len(s)])

\* str(n) for n >= 0
RECURSIVE PyStrInt(_)
PyStrInt(n) ==
    IF n < 10 THEN <<Digits[n + 1]>>
    ELSE PyStrInt(n \div 10) \o <<Digits[(n % 10) + 1]>>

(***************************************************************************)
(* Dates.                                                                  *)
(***************************************************************************)
\* a parsed date is <<year, month, day>>, a missing one NaT
NaT == <<"NaT">>

IsLeap(y) == (y % 4 = 0 /\ y % 100 # 0) \/ y % 400 = 0

DaysIn(y, m) ==
    IF m = 2 THEN (IF IsLeap(y) THEN 29 ELSE 28)
    ELSE IF m \in {4, 6, 9, 11} THEN 30 ELSE 31

\* pd.to_datetime(..., errors="coerce") on one cell: an ISO date
\* YYYY-MM-DD that names a day of the calendar is that day, NaN and
\* everything else become NaT
ToDatetime(v) ==
    IF IsNa(v) THEN NaT
    ELSE IF /\ Len(v) = 10
            /\ v[5] = "-"
            /\ v[8] = "-"
            /\ \A i \in {1, 2, 3, 4, 6, 7, 9, 10} : IsDigit(v[i])
         THEN LET y == PyInt(SubSeq(v, 1, 4))
                  m == PyInt(SubSeq(v, 6, 7))
                  d == PyInt(SubSeq(v, 9, 10))
              IN  IF y >= 1 /\ m \in 1..12 /\ d \in 1..DaysIn(y, m)
                  THEN <<y, m, d>>
                  ELSE NaT
         ELSE NaT

(***************************************************************************)
(* Exceptions.                                                             *)
(***************************************************************************)
NoError == [type |-> "none", arg |-> "none"]

KeyError(col) == [type |-> "KeyError", arg |-> col]

DtAccessorError == [type |-> "AttributeError", arg |-> ".dt"]

Returned(f) == [err |-> NoError, df |-> f]

Raised(e) == [err |-> e, df |-> [cols |-> {}, rows |-> <<>>]]

(***************************************************************************)
(* DataFrames.                                                             *)
(***************************************************************************)
\* cols in clean_metadata and prepare_df
Recognised == {"title", "abstract", "publish_time", "journal", "authors",
               "doi", "source_x"}

\* the columns a frame ever gets
Fields == Recognised \cup {"cord_uid", "year", "abstract_length", "title_length"}

\* the rows of a frame keep only the cells of its columns
Restrict(r, cols) ==
    [c \in DOMAIN r |-> IF c \in cols \cup {"idx"} THEN r[c] ELSE NaN]

\* df[keep].copy()
Project(f, keep) ==
    [cols |-> keep,
     rows |-> [i \in 1..Len(f.rows) |-> Restrict(f.rows[i], keep)]]

\* pandas's test for a missing cell
IsMissing(v) == v = NaN \/ v = NaT

RECURSIVE SelectRows(_, _)
\* boolean indexing df[mask]: the rows whose index label is in keepIdx,
\* in their order
SelectRows(rows, keepIdx) ==
    IF Len(rows) = 0 THEN <<>>
    ELSE IF Len(rows) = 1
         THEN (IF rows[1].idx \in keepIdx THEN rows ELSE <<>>)
         ELSE LET half == Len(rows) \div 2
              IN  SelectRows(SubSeq(rows, 1, half), keepIdx)
                      \o SelectRows(SubSeq(rows, half + 1, Len(rows)), keepIdx)

\* the dropna left out
DropNaKeepsAll(f, col) == f

\* df.dropna(subset=[col]) for a column the frame has
DropNa(f, col) ==
    [cols |-> f.cols,
     rows |-> SelectRows(f.rows,
                 {f.rows[i].idx : i \in {j \in 1..Len(f.rows) :
                                            ~IsMissing(f.rows[j][col])}})]

\* a dropna that passes over a column the frame does not have
DropNaSubsetLenient(f, col) ==
    Returned(IF col \in f.cols THEN DropNa(f, col) ELSE f)

\* df.dropna(subset=[col]): KeyError for a column the frame does not have
DropNaSubset(f, col) ==
    IF col \in f.cols THEN Returned(DropNa(f, col)) ELSE Raised(KeyError(col))

\* df[col] = series, the series having a value for every row
Assign(f, col, series) ==
    [cols |-> f.cols \cup {col},
     rows |-> [i \in 1..Len(f.rows) |-> [f.rows[i] EXCEPT ![col] = series[i]]]]

\* df.head(n)
HeadRows(rows, n) == SubSeq(rows, 1, IF Len(rows) < n THEN Len(rows) ELSE n)

\* df[[c1, c2, ...]]: the listed columns of every row
Columns(rows, cols) == [i \in 1..Len(rows) |-> Restrict(rows[i], cols)]

(***************************************************************************)
(* The cleaners.                                                           *)
(***************************************************************************)
\* keep = [c for c in cols if c in df.columns]
Keep(f) == {c \in Recognised : c \in f.cols}

\* pd.to_datetime(df.get("publish_time"), errors="coerce")
ParseTime(f) == [i \in 1..Len(f.rows) |-> ToDatetime(f.rows[i].publish_time)]

\* df["publish_time"].dt.year
YearOf(f) == [i \in 1..Len(f.rows) |-> f.rows[i].publish_time[1]]

\* df["abstract"].fillna("").apply(lambda x: len(x.split()))
AbstractLength(f) ==
    [i \in 1..Len(f.rows) |-> WordCount(FillNa(f.rows[i].abstract))]

\* df["title"].apply(lambda x: len(str(x).split()))
TitleLength(f) == [i \in 1..Len(f.rows) |-> WordCount(PyStr(f.rows[i].title))]

\* lines 40-49 of analysis.py, 40-43 of app.py: project, drop the rows
\* without title, parse the dates, drop the rows without date.
\* df.dropna(subset=["title"]) raises KeyError when there is no title
\* column.  Without a publish_time column df.get returns None, the column
\* is filled with None, every row is dropped and .dt raises on the object
\* column.
CleanRows(raw) ==
    LET d1 == Project(raw, Keep(raw))
        t == DropNaSubset(d1, "title")
    IN  IF t.err # NoError THEN t
        ELSE LET d2 == t.df
             IN  IF "publish_time" \notin d2.cols THEN Raised(DtAccessorError)
                 ELSE Returned(DropNa(Assign(d2, "publish_time", ParseTime(d2)),
                                      "publish_time"))

\* clean_metadata(df)
clean_metadata(raw) ==
    LET c == CleanRows(raw)
    IN  IF c.err # NoError THEN c
        ELSE LET d5 == Assign(c.df, "year", YearOf(c.df))
             IN  IF "abstract" \notin d5.cols THEN Raised(KeyError("abstract"))
                 ELSE LET d6 == Assign(d5, "abstract_length", AbstractLength(d5))
                      IN  Returned(Assign(d6, "title_length", TitleLength(d6)))

\* prepare_df(df)
prepare_df(raw) ==
    LET c == CleanRows(raw)
    IN  IF c.err # NoError THEN c
        ELSE LET d5 == Assign(c.df, "year", YearOf(c.df))
             IN  IF "abstract" \notin d5.cols THEN Raised(KeyError("abstract"))
                 ELSE Returned(Assign(d5, "abstract_length", AbstractLength(d5)))

(***************************************************************************)
(* Counting.                                                               *)
(***************************************************************************)
\* the values of a text column, missing ones left out
Values(rows, col) ==
    {rows[i][col] : i \in {j \in 1..Len(rows) : ~IsMissing(rows[j][col])}}

\* the values of the year column, which has no missing cell
Years(rows) == {rows[i].year : i \in 1..Len(rows)}

CountOf(rows, col, v) == Cardinality({i \in 1..Len(rows) : rows[i][col] = v})

FirstAt(rows, col, v) == CHOOSE i \in 1..Len(rows) :
    /\ rows[i][col] = v
    /\ \A j \in 1..(i - 1) : rows[j][col] # v

RECURSIVE SortedBy(_, _)
\* the elements of S by ascending rank, rank a one-to-one function on S
SortedBy(S, rank) ==
    IF S = {} THEN <<>>
    ELSE LET first == CHOOSE x \in S : \A y \in S : rank[x] <= rank[y]
         IN  <<first>> \o SortedBy(S \ {first}, rank)

\* df["year"].value_counts() without sort_index(): the larger count first
YearCountsByCount(rows) ==
    LET years == Years(rows)
        ys == SortedBy(years,
                  [y \in years |-> FirstAt(rows, "year", y)
                       - (Len(rows) + 1) * CountOf(rows, "year", y)])
    IN  [i \in 1..Len(ys) |-> [key |-> ys[i], n |-> CountOf(rows, "year", ys[i])]]

\* df["year"].value_counts().sort_index(): one entry per year, by year
YearCounts(rows) ==
    LET years == Years(rows)
        ys == SortedBy(years, [y \in years |-> y])
    IN  [i \in 1..Len(ys) |-> [key |-> ys[i], n |-> CountOf(rows, "year", ys[i])]]

\* df["journal"].value_counts(): one entry per journal, NaN left out, the
\* larger count first, equal counts in the order of first appearance
JournalCounts(rows) ==
    LET journals == Values(rows, "journal")
        js == SortedBy(journals,
                  [j \in journals |-> FirstAt(rows, "journal", j)
                       - (Len(rows) + 1) * CountOf(rows, "journal", j)])
    IN  [i \in 1..Len(js) |-> [key |-> js[i], n |-> CountOf(rows, "journal", js[i])]]

\* df["journal"].value_counts().head(15)
TopJournalCounts(rows) == HeadRows(JournalCounts(rows), TopJournals)

(***************************************************************************)
(* The files the programs are run on.                                      *)
(***************************************************************************)
Cells(t, a, p, j) ==
    [title |-> t, abstract |-> a, publish_time |-> p, journal |-> j]

RowA == Cells(<<"X">>, <<"a"," ","b"," ","c">>,
              <<"2","0","2","0","-","0","1","-","0","1">>, NaN)

RowB == Cells(NaN, <<"b">>,
              <<"2","0","2","0","-","0","2","-","0","1">>, <<"J","2">>)

RowC == Cells(<<"Y">>, NaN,
              <<"n","o","t","-","a","-","d","a","t","e">>, NaN)

RowD == Cells(<<"Z">>, NaN,
              <<"2","0","2","1","-","0","3","-","0","1">>, <<"J","1">>)

RowE == Cells(<<"Y"," ","x">>, <<"b">>,
              <<"2","0","2","1","-","0","2","-","3","0">>, <<"J","2">>)

RowF == Cells(<<" ","Y"," "," ","z">>, <<" ","B","\t","c"," ">>,
              <<"2","0","2","0","-","0","1","-","0","1">>, <<"J","2">>)

RowG == Cells(<<"Z">>, <<"a">>, NaN, <<"J","1">>)

RowH == Cells(<<"x"," ","y">>, NaN,
              <<"2","0","2","0","-","0","2","-","2","9">>, <<"J","1">>)

RowPool == {RowA, RowB, RowC, RowD, RowE, RowF, RowG}

\* the tables of section 8 of the specification, and one whose journals
\* differ in count
Fixtures == {<<RowA, RowB, RowC>>, <<RowA, RowB, RowC, RowD>>,
             <<RowF, RowD, RowH>>}

\* a table with more rows of one year than a display shows and more
\* journals than the journal chart lists
LongTable ==
    [i \in 1..(DisplayRows + 2) |->
        Cells(IF i % 2 = 0 THEN <<"X">> ELSE <<"Y"," ","z">>,
              IF i % 3 = 0 THEN NaN ELSE <<"a"," ","b"," ","c">>,
              IF i > 1 THEN <<"2","0","2","0","-","0","1","-","0","1">>
                       ELSE <<"2","0","2","1","-","0","3","-","0","1">>,
              <<"J">> \o PyStrInt(i % (TopJournals + 2)))]

Tables ==
    UNION {[1..n -> RowPool] : n \in 0..MaxRows} \cup Fixtures \cup {LongTable}

Headers ==
    {(Recognised \ m) \cup {"cord_uid"} :
        m \in {x \in SUBSET Recognised : Cardinality(x) <= MaxMissing}}

\* what read_csv returns for a file with the header cols and the data
\* lines cells: a RangeIndex from 0 and the cells of the header's columns
ReadCsv(cols, cells) ==
    [cols |-> cols,
     rows |-> [i \in 1..Len(cells) |->
                 Restrict([c \in Fields \cup {"idx"} |->
                              IF c = "idx" THEN i - 1
                              ELSE IF c \in DOMAIN cells[i] THEN cells[i][c]
                              ELSE IF c = "authors" THEN <<"a","u">>
                              ELSE <<"v">>],
                          cols)]]

EmptyFrame == [cols |-> {}, rows |-> <<>>]

None == [none |-> TRUE]

\* st.cache_data: no entry yet, or the value load_data returned
NotCached == [cached |-> FALSE]

Cached(v) == [cached |-> TRUE, value |-> v]

(***************************************************************************)
(* State.                                                                  *)
(***************************************************************************)
VARIABLES
    mode,             \* "batch": python analysis.py; "app": streamlit run app.py
    source,           \* "disk": metadata.csv exists; "upload": a file was
                      \* uploaded in the sidebar; "none": neither
    csv,              \* the table the file holds
    pc,               \* where the run is; "exited": the batch process has
                      \* ended, or app.main has returned early or raised;
                      \* "done": app.main has run to its last line
    attempts,         \* the read_csv calls of the loader that is running
    cache,            \* st.cache_data of load_data
    df_raw,
    df,
    err,              \* the exception that ended the run, or NoError
    exit_code,        \* of the batch process, -1 while it runs
    messages,         \* what st.error, st.warning, st.info showed, and the
                      \* error lines the batch script printed
    stages,           \* the steps of analysis.main gone through, the plot
                      \* files written among them
    top_j,
    pubs_by_year,
    selected_year,
    selected_journal,
    filtered,
    table,            \* the st.dataframe of the filtered papers
    hist,             \* the data of the abstract length histogram
    keyword,
    hits,
    hits_table        \* the st.dataframe of the search hits

vars == <<mode, source, csv, pc, attempts, cache, df_raw, df, err, exit_code,
          messages, stages, top_j, pubs_by_year, selected_year,
          selected_journal, filtered, table, hist, keyword, hits, hits_table>>

loaderVars == <<attempts, cache, df_raw>>

batchOut == <<stages, top_j, pubs_by_year>>

appOut == <<selected_year, selected_journal, filtered, table, hist, keyword,
            hits, hits_table>>

env == <<mode, source, csv>>

All == <<"A","l","l">>

Fresh ==
    /\ pc = "start"
    /\ attempts = <<>>
    /\ df_raw = None
    /\ df = EmptyFrame
    /\ err = NoError
    /\ exit_code = -1
    /\ messages = <<>>
    /\ stages = <<>>
    /\ top_j = <<>>
    /\ pubs_by_year = <<>>
    /\ selected_year = All
    /\ selected_journal = All
    /\ filtered = EmptyFrame
    /\ table = <<>>
    /\ hist = <<>>
    /\ keyword = <<>>
    /\ hits = <<>>
    /\ hits_table = <<>>

Init ==
    /\ mode \in {"batch", "app"}
    /\ source \in (IF mode = "batch" THEN {"disk", "none"}
                   ELSE {"disk", "upload", "none"})
    /\ csv \in (IF source = "none" THEN {EmptyFrame}
                ELSE {ReadCsv(h, t) : h \in Headers, t \in Tables})
    /\ cache = NotCached
    /\ Fresh

(***************************************************************************)
(* The loaders.  Whether a read_csv call succeeds is decided by the bytes  *)
(* of the file: each call takes one of the outcomes it can have.           *)
(***************************************************************************)
ParserError == [type |-> "ParserError", arg |-> "tokenizing data"]

UnicodeDecodeError == [type |-> "UnicodeDecodeError", arg |-> "utf-8"]

EmptyDataError == [type |-> "EmptyDataError", arg |-> "no columns"]

FileNotFoundError == [type |-> "FileNotFoundError", arg |-> "metadata.csv"]

\* pd.read_csv(path, low_memory=False)
StrictOutcomes == {NoError, ParserError, UnicodeDecodeError, FileNotFoundError}

\* pd.read_csv(path, engine="python", on_bad_lines="skip", ...)
PermissiveOutcomes == {NoError, UnicodeDecodeError, EmptyDataError}

Attempt(how, outcome) == [how |-> how, result |-> outcome]

\* except Exception: every failure is tried again
RetryOnAny(outcome) == outcome # NoError

\* except pd.errors.ParserError: the failures that are tried again
RetryOn(outcome) == outcome = ParserError

\* a line shown to the user, with the exception it reports if any
Msg(text) == [text |-> text, cause |-> NoError]

MsgOf(text, e) == [text |-> text, cause |-> e]

\* an exception nothing catches ends the run: the batch script exits with
\* status 1, the dashboard shows the exception and stops the script run
Abort(e) ==
    /\ err' = e
    /\ exit_code' = IF mode = "batch" THEN 1 ELSE exit_code
    /\ pc' = "exited"

\* analysis.main, lines 122-125: the check of the input file
BatchStart ==
    /\ mode = "batch"
    /\ pc = "start"
    /\ IF source = "none"
       THEN /\ messages' = Append(messages, Msg("Error: metadata.csv not found"))
            /\ exit_code' = 1
            /\ pc' = "exited"
       ELSE /\ pc' = "load_metadata"
            /\ UNCHANGED <<messages, exit_code>>
    /\ UNCHANGED <<env, loaderVars, df, err, batchOut, appOut>>

\* load_metadata, lines 19-25: the attempt with the default engine
LoadMetadataStrict ==
    /\ pc = "load_metadata"
    /\ \E outcome \in StrictOutcomes :
        /\ attempts' = Append(attempts, Attempt("strict", outcome))
        /\ IF outcome = NoError
           THEN /\ df_raw' = csv
                /\ stages' = Append(stages, "load")
                /\ pc' = "clean"
                /\ UNCHANGED <<err, exit_code>>
           ELSE IF RetryOn(outcome)
           THEN /\ pc' = "load_metadata_retry"
                /\ UNCHANGED <<df_raw, stages, err, exit_code>>
           ELSE /\ Abort(outcome)
                /\ UNCHANGED <<df_raw, stages>>
    /\ UNCHANGED <<env, cache, df, messages, top_j, pubs_by_year, appOut>>

\* load_metadata, lines 26-33: the attempt that skips bad lines
LoadMetadataPermissive ==
    /\ pc = "load_metadata_retry"
    /\ \E outcome \in PermissiveOutcomes :
        /\ attempts' = Append(attempts, Attempt("permissive", outcome))
        /\ IF outcome = NoError
           THEN /\ df_raw' = csv
                /\ stages' = Append(stages, "load")
                /\ pc' = "clean"
                /\ UNCHANGED <<err, exit_code, messages>>
           ELSE /\ messages' = Append(messages, MsgOf("Failed to load CSV", outcome))
                /\ Abort(outcome)
                /\ UNCHANGED <<df_raw, stages>>
    /\ UNCHANGED <<env, cache, df, top_j, pubs_by_year, appOut>>

\* analysis.main, line 128
CleanMetadata ==
    /\ pc = "clean"
    /\ LET c == clean_metadata(df_raw)
       IN  IF c.err = NoError
           THEN /\ df' = c.df
                /\ stages' = Append(stages, "clean")
                /\ pc' = "stats"
                /\ UNCHANGED <<err, exit_code>>
           ELSE /\ Abort(c.err)
                /\ UNCHANGED <<df, stages>>
    /\ attempts' = <<>>
    /\ UNCHANGED <<env, cache, df_raw, messages, top_j, pubs_by_year, appOut>>

\* basic_stats(df), lines 57-68
BasicStats ==
    /\ pc = "stats"
    /\ IF "journal" \in df.cols
       THEN /\ top_j' = TopJournalCounts(df.rows)
            /\ pubs_by_year' = YearCounts(df.rows)
            /\ stages' = Append(stages, "stats")
            /\ pc' = "plots"
            /\ UNCHANGED <<err, exit_code>>
       ELSE /\ Abort(KeyError("journal"))
            /\ UNCHANGED <<top_j, pubs_by_year, stages>>
    /\ UNCHANGED <<env, loaderVars, df, messages, appOut>>

\* the journal chart drawn before the chart of the years
PlotFilesReordered == <<"top_journals.png", "publications_per_year.png",
                        "abstract_length_distribution.png",
                        "title_vs_abstract.png">>

PlotFiles == <<"publications_per_year.png", "top_journals.png",
               "abstract_length_distribution.png", "title_vs_abstract.png">>

BarplotError == [type |-> "ValueError", arg |-> "barplot"]

\* sns.barplot(x=top_j.values, y=top_j.index): with no journal to draw,
\* the seaborn that is installed draws an empty chart or raises
BarplotOutcomes(counts) ==
    IF counts = <<>> THEN {NoError, BarplotError} ELSE {NoError}

\* create_visualizations(df, pubs_by_year), lines 75-108
CreateVisualizations ==
    /\ pc = "plots"
    /\ top_j' = TopJournalCounts(df.rows)
    /\ \E outcome \in BarplotOutcomes(top_j') :
        IF outcome = NoError
        THEN /\ stages' = stages \o PlotFiles
             /\ pc' = "notes"
             /\ UNCHANGED <<err, exit_code>>
        ELSE /\ stages' = Append(stages, PlotFiles[1])
             /\ Abort(outcome)
    /\ UNCHANGED <<env, loaderVars, df, messages, pubs_by_year, appOut>>

\* observations(df) and the end of analysis.main, lines 134-135
Observations ==
    /\ pc = "notes"
    /\ stages' = Append(stages, "notes")
    /\ exit_code' = 0
    /\ pc' = "exited"
    /\ UNCHANGED <<env, loaderVars, df, err, messages, top_j, pubs_by_year,
                   appOut>>

(***************************************************************************)
(* The dashboard.  Streamlit runs app.main from the top at every           *)
(* interaction; the widgets return what the user has chosen.               *)
(***************************************************************************)
\* app.main, lines 53-54 and 61-73: the choice of the data source
AppStart ==
    /\ mode = "app"
    /\ pc = "start"
    /\ IF source = "upload"
       THEN /\ pc' = "upload"
            /\ UNCHANGED messages
       ELSE IF source = "disk"
       THEN /\ pc' = "load_data"
            /\ UNCHANGED messages
       ELSE /\ messages' = messages \o
                                <<Msg("No metadata.csv found in app folder"),
                                  Msg("Upload a CSV to begin exploration")>>
            /\ pc' = "exited"
    /\ UNCHANGED <<env, loaderVars, df, err, exit_code, batchOut, appOut>>

\* app.main, lines 55-58: the uploaded file read with the default engine
UploadStrict ==
    /\ pc = "upload"
    /\ \E outcome \in StrictOutcomes \ {FileNotFoundError} :
        /\ attempts' = Append(attempts, Attempt("strict", outcome))
        /\ IF outcome = NoError
           THEN /\ df_raw' = csv
                /\ pc' = "loaded"
                /\ UNCHANGED <<err, exit_code>>
           ELSE IF RetryOn(outcome)
           THEN /\ pc' = "upload_retry"
                /\ UNCHANGED <<df_raw, err, exit_code>>
           ELSE /\ Abort(outcome)
                /\ UNCHANGED df_raw
    /\ UNCHANGED <<env, cache, df, messages, batchOut, appOut>>

\* what the python engine reads from the uploaded stream after the first
\* read_csv has consumed it up to its failure: nothing (EmptyDataError), or
\* a table whose header is a data line, so without any recognised column
RestOfStream == [cols |-> {"cord_uid"}, rows |-> <<>>]

\* app.main, lines 59-60: the uploaded file read again, bad lines skipped;
\* nothing catches an exception of this call
UploadPermissive ==
    /\ pc = "upload_retry"
    /\ \E outcome \in PermissiveOutcomes :
        /\ attempts' = Append(attempts, Attempt("permissive", outcome))
        /\ IF outcome = NoError
           THEN /\ df_raw' = RestOfStream
                /\ messages' = Append(messages, Msg("Loaded with fallback"))
                /\ pc' = "loaded"
                /\ UNCHANGED <<err, exit_code>>
           ELSE /\ Abort(outcome)
                /\ UNCHANGED <<df_raw, messages>>
    /\ UNCHANGED <<env, cache, df, batchOut, appOut>>

\* @st.cache_data: load_data is not run again for a path it has returned for
LoadDataCached ==
    /\ pc = "load_data"
    /\ cache # NotCached
    /\ df_raw' = cache.value
    /\ pc' = "loaded"
    /\ UNCHANGED <<env, attempts, cache, df, err, exit_code, messages, batchOut,
                   appOut>>

\* load_data, lines 22-25 and 33-34: the attempt with the default engine
LoadDataStrict ==
    /\ pc = "load_data"
    /\ cache = NotCached
    /\ \E outcome \in StrictOutcomes :
        /\ attempts' = Append(attempts, Attempt("strict", outcome))
        /\ IF outcome = NoError
           THEN /\ df_raw' = csv
                /\ cache' = Cached(csv)
                /\ pc' = "loaded"
                /\ UNCHANGED <<err, exit_code>>
           ELSE IF RetryOn(outcome)
           THEN /\ pc' = "load_data_retry"
                /\ UNCHANGED <<df_raw, cache, err, exit_code>>
           ELSE IF outcome = FileNotFoundError
           THEN /\ df_raw' = None
                /\ cache' = Cached(None)
                /\ pc' = "loaded"
                /\ UNCHANGED <<err, exit_code>>
           ELSE /\ Abort(outcome)
                /\ UNCHANGED <<df_raw, cache>>
    /\ UNCHANGED <<env, df, messages, batchOut, appOut>>

\* load_data, lines 26-32: the attempt that skips bad lines
LoadDataPermissive ==
    /\ pc = "load_data_retry"
    /\ \E outcome \in PermissiveOutcomes :
        /\ attempts' = Append(attempts, Attempt("permissive", outcome))
        /\ IF outcome = NoError
           THEN /\ df_raw' = csv
                /\ cache' = Cached(csv)
                /\ UNCHANGED messages
           ELSE /\ df_raw' = None
                /\ cache' = Cached(None)
                /\ messages' = Append(messages,
                                MsgOf("Failed to parse CSV even with fallback",
                                      outcome))
        /\ pc' = "loaded"
    /\ UNCHANGED <<env, df, err, exit_code, batchOut, appOut>>

\* app.main, lines 64-66 and 71-75
PrepareDf ==
    /\ pc = "loaded"
    /\ IF df_raw = None
       THEN /\ messages' = Append(messages,
                              Msg("metadata.csv exists but couldn't be parsed"))
            /\ pc' = "exited"
            /\ UNCHANGED <<df, err, exit_code>>
       ELSE LET c == prepare_df(df_raw)
            IN  /\ IF c.err = NoError
                   THEN /\ df' = c.df
                        /\ pc' = "filters"
                        /\ UNCHANGED <<err, exit_code>>
                   ELSE /\ Abort(c.err)
                        /\ UNCHANGED df
                /\ UNCHANGED messages
    /\ attempts' = <<>>
    /\ UNCHANGED <<env, cache, df_raw, batchOut, appOut>>

\* sorted(df["year"].dropna().unique().tolist()), then ["All"] + str of each
YearChoices(d) ==
    {All} \cup {PyStrInt(y) : y \in Years(d.rows)}

\* Series.dropna().unique(): the values in the order of first appearance
Unique(rows, col) ==
    LET firsts == SelectRows(rows,
                    {rows[i].idx : i \in {j \in 1..Len(rows) :
                        /\ ~IsMissing(rows[j][col])
                        /\ \A k \in 1..(j - 1) : rows[k][col] # rows[j][col]}})
    IN  [i \in 1..Len(firsts) |-> firsts[i][col]]

\* ["All"] + journals[:50]
JournalChoices(d) ==
    LET js == HeadRows(Unique(d.rows, "journal"), JournalOptions)
    IN  {All} \cup {js[i] : i \in 1..Len(js)}

\* app.main, lines 84-88
ApplyFilter(d, year, journal) ==
    LET byYear ==
            IF year # All
            THEN SelectRows(d.rows,
                     {d.rows[i].idx : i \in {j \in 1..Len(d.rows) :
                                        d.rows[j].year = PyInt(year)}})
            ELSE d.rows
        byJournal ==
            IF journal # All
            THEN SelectRows(byYear,
                     {byYear[i].idx : i \in {j \in 1..Len(byYear) :
                                        byYear[j].journal = journal}})
            ELSE byYear
    IN  [cols |-> d.cols, rows |-> byJournal]

\* app.main, lines 78-90: the select boxes and the filtered frame
ApplyFilters ==
    /\ pc = "filters"
    /\ IF "journal" \in df.cols
       THEN /\ \E y \in YearChoices(df), j \in JournalChoices(df) :
                /\ selected_year' = y
                /\ selected_journal' = j
                /\ filtered' = ApplyFilter(df, y, j)
            /\ pc' = "table"
            /\ UNCHANGED <<err, exit_code>>
       ELSE /\ Abort(KeyError("journal"))
            /\ UNCHANGED <<selected_year, selected_journal, filtered>>
    /\ UNCHANGED <<env, loaderVars, df, messages, batchOut, table, hist,
                   keyword, hits, hits_table>>

\* app.main, lines 93-94
ShowTable ==
    /\ pc = "table"
    /\ IF "authors" \in filtered.cols
       THEN /\ table' = HeadRows(Columns(filtered.rows,
                            {"publish_time", "title", "journal", "authors"}),
                            DisplayRows)
            /\ pc' = "charts"
            /\ UNCHANGED <<err, exit_code>>
       ELSE /\ Abort(KeyError("authors"))
            /\ UNCHANGED table
    /\ UNCHANGED <<env, loaderVars, df, messages, batchOut, selected_year,
                   selected_journal, filtered, hist, keyword, hits, hits_table>>

\* the chart of the years counted on the filtered frame
PubsChartFiltered(d, f) == YearCounts(f.rows)

\* line 100: the frame the publications-per-year chart counts
PubsChart(d, f) == YearCounts(d.rows)

\* line 110: the frame the top-journals chart counts
JournalChart(d, f) == TopJournalCounts(d.rows)

\* line 120: the series the histogram bins
HistData(d, f) == [i \in 1..Len(f.rows) |-> f.rows[i].abstract_length]

\* app.main, lines 97-122
ShowCharts ==
    /\ pc = "charts"
    /\ pubs_by_year' = PubsChart(df, filtered)
    /\ top_j' = JournalChart(df, filtered)
    /\ \E outcome \in BarplotOutcomes(top_j') :
        IF outcome = NoError
        THEN /\ hist' = HistData(df, filtered)
             /\ pc' = "search"
             /\ UNCHANGED <<err, exit_code>>
        ELSE /\ Abort(outcome)
             /\ UNCHANGED hist
    /\ UNCHANGED <<env, loaderVars, df, messages, stages, selected_year,
                   selected_journal, filtered, table, keyword, hits, hits_table>>

\* the lambda of lines 128-129 on one row
Matches(r, kw) ==
    \/ Contains(Lower(PyStr(r.title)), Lower(kw))
    \/ Contains(Lower(PyStr(r.abstract)), Lower(kw))

\* line 128: df[df.apply(..., axis=1)]
SearchHits(d, f, kw) ==
    SelectRows(d.rows,
        {d.rows[i].idx : i \in {j \in 1..Len(d.rows) : Matches(d.rows[j], kw)}})

\* the terms typed in the search box
Keywords == {<<>>, <<"X">>, <<"b">>, <<"n","a","n">>, <<"q">>}

\* app.main, lines 125-137
SearchPapers ==
    /\ pc = "search"
    /\ \E kw \in Keywords :
        /\ keyword' = kw
        /\ IF kw # <<>>
           THEN /\ hits' = SearchHits(df, filtered, kw)
                /\ hits_table' = HeadRows(Columns(hits',
                                     {"publish_time", "title", "journal"}),
                                     DisplayRows)
           ELSE UNCHANGED <<hits, hits_table>>
    /\ pc' = "done"
    /\ UNCHANGED <<env, loaderVars, df, err, exit_code, messages, batchOut,
                   selected_year, selected_journal, filtered, table, hist>>

\* a widget is changed: the script runs again; only the cache is kept
Rerun ==
    /\ mode = "app"
    /\ pc \in {"exited", "done"}
    /\ pc' = "start"
    /\ attempts' = <<>>
    /\ df_raw' = None
    /\ df' = EmptyFrame
    /\ err' = NoError
    /\ messages' = <<>>
    /\ filtered' = EmptyFrame
    /\ selected_year' = All
    /\ selected_journal' = All
    /\ table' = <<>>
    /\ hist' = <<>>
    /\ keyword' = <<>>
    /\ hits' = <<>>
    /\ hits_table' = <<>>
    /\ top_j' = <<>>
    /\ pubs_by_year' = <<>>
    /\ UNCHANGED <<env, cache, stages, exit_code>>

Next ==
    \/ BatchStart
    \/ LoadMetadataStrict
    \/ LoadMetadataPermissive
    \/ CleanMetadata
    \/ BasicStats
    \/ CreateVisualizations
    \/ Observations
    \/ AppStart
    \/ UploadStrict
    \/ UploadPermissive
    \/ LoadDataCached
    \/ LoadDataStrict
    \/ LoadDataPermissive
    \/ PrepareDf
    \/ ApplyFilters
    \/ ShowTable
    \/ ShowCharts
    \/ SearchPapers
    \/ Rerun

Spec == Init /\ [][Next]_vars

(***************************************************************************)
(* Properties.                                                             *)
(***************************************************************************)
\* the cleaner has returned a frame
Cleaned == "year" \in df.cols

\* the cleaner has been called on a table
CleanerCalled ==
    /\ df_raw # None
    /\ pc \notin {"start", "load_metadata", "load_metadata_retry", "clean",
                  "upload", "upload_retry", "load_data", "load_data_retry",
                  "loaded"}

HasColumn(col) == IF df_raw = None THEN FALSE ELSE col \in df_raw.cols

\* the row of the raw table with index label i: read_csv numbers the rows
\* from 0
RawRow(i) == df_raw.rows[i + 1]

\* a date of the calendar
IsCalendarDate(t) ==
    /\ Len(t) = 3
    /\ t[2] \in 1..12
    /\ t[3] >= 1
    /\ t[3] <= (IF t[2] = 2
                THEN (IF t[1] % 400 = 0 \/ (t[1] % 4 = 0 /\ t[1] % 100 # 0)
                      THEN 29 ELSE 28)
                ELSE IF t[2] \in {4, 6, 9, 11} THEN 30 ELSE 31)

\* the raw row is one the cleaned set must hold
Keeps(r) == ~IsNa(r.title) /\ ~IsNa(r.publish_time) /\ ToDatetime(r.publish_time) # NaT

\* C1: every row the cleaner returns is a row of the input with a title
\* and a publish date that parsed to a date of the calendar, the rows of
\* the input without title or without parsable date are left out, and the
\* rows come once each, in the order of the input
CleanedRowsAreTheValidRows ==
    Cleaned =>
        LET kept == {df.rows[i].idx : i \in 1..Len(df.rows)}
        IN  /\ \A i \in 1..Len(df.rows) :
                /\ df.rows[i].idx + 1 \in 1..Len(df_raw.rows)
                /\ RawRow(df.rows[i].idx).idx = df.rows[i].idx
                /\ df.rows[i].title = RawRow(df.rows[i].idx).title
                /\ ~IsNa(df.rows[i].title)
                /\ df.rows[i].publish_time # NaT
                /\ IsCalendarDate(df.rows[i].publish_time)
            /\ \A j \in 1..Len(df_raw.rows) :
                df_raw.rows[j].idx \in kept <=> Keeps(df_raw.rows[j])
            /\ \A i \in 1..(Len(df.rows) - 1) :
                df.rows[i].idx < df.rows[i + 1].idx

\* C1 witness: a cleaner has kept a row and left out one row for its
\* title and another for its date
SomeRowsDropped ==
    /\ Cleaned
    /\ Len(df.rows) >= 1
    /\ \E j \in 1..Len(df_raw.rows) : IsNa(df_raw.rows[j].title)
    /\ \E j \in 1..Len(df_raw.rows) :
        /\ ~IsNa(df_raw.rows[j].title)
        /\ ~IsNa(df_raw.rows[j].publish_time)
        /\ ToDatetime(df_raw.rows[j].publish_time) = NaT

\* C2: on a table without title column the cleaner raises KeyError for
\* the title and returns no cleaned set
NoTitleColumnFails ==
    (df_raw # None /\ ~HasColumn("title")) =>
        /\ ~Cleaned
        /\ df = EmptyFrame
        /\ CleanerCalled => (pc = "exited" /\ err = KeyError("title"))

\* C2 witness: a cleaner has been called on a table with rows and columns
\* but no title column
CleanedWithoutTitleColumn ==
    /\ CleanerCalled
    /\ ~HasColumn("title")
    /\ HasColumn("publish_time")
    /\ Len(df_raw.rows) > 0

\* C3 as claimed: on a table with the title and publish_time columns,
\* whatever other columns it lacks, neither the cleaner nor a consumer of
\* the cleaned set fails for a column
OptionalColumnsNeverFail ==
    (HasColumn("title") /\ HasColumn("publish_time")) => err.type # "KeyError"

\* the number of maximal runs of characters that are not whitespace
TokenCount(s) ==
    Cardinality({i \in 1..Len(s) :
        s[i] \notin Whitespace /\ (i = 1 \/ s[i - 1] \in Whitespace)})

\* the year an ISO date text is written with
WrittenYear(t) ==
    1000 * DigitVal(t[1]) + 100 * DigitVal(t[2]) + 10 * DigitVal(t[3])
        + DigitVal(t[4])

\* abstract_length and year of every cleaned row are those of its raw row
AbstractLengthAndYearDerived ==
    \A i \in 1..Len(df.rows) :
        LET raw == RawRow(df.rows[i].idx)
        IN  /\ df.rows[i].abstract_length =
                   (IF IsNa(raw.abstract) THEN 0 ELSE TokenCount(raw.abstract))
            /\ df.rows[i].year = WrittenYear(raw.publish_time)

TitleLengthDerived ==
    /\ "title_length" \in df.cols
    /\ \A i \in 1..Len(df.rows) :
        df.rows[i].title_length = TokenCount(RawRow(df.rows[i].idx).title)

\* the raw table is rows A, B, C of section 8 of the specification
IsTableABC ==
    /\ HasColumn("title") /\ HasColumn("publish_time") /\ HasColumn("abstract")
    /\ Len(df_raw.rows) = 3
    /\ \A i \in 1..3 : \A c \in {"title", "publish_time", "abstract"} :
        df_raw.rows[i][c] = <<RowA, RowB, RowC>>[i][c]

TableABCGivesA ==
    /\ Len(df.rows) = 1
    /\ df.rows[1].title = <<"X">>
    /\ df.rows[1].year = 2020
    /\ df.rows[1].abstract_length = 3

\* C4 as claimed: every record of a cleaned set, of either cleaner, has
\* abstract_length, title_length and year derived from its source fields
AllDerivedFieldsInBothModes ==
    Cleaned =>
        /\ AbstractLengthAndYearDerived
        /\ TitleLengthDerived
        /\ IsTableABC => TableABCGivesA

\* C4 as amended: abstract_length is the number of whitespace-separated
\* tokens of the abstract, 0 when it is absent, and year the calendar year
\* of the publish date, in both modes; title_length is the number of
\* tokens of the title in the records of clean_metadata, and the records
\* of prepare_df have no title_length; rows A, B, C give the one record A
\* with year 2020 and abstract_length 3
DerivedFields ==
    Cleaned =>
        /\ AbstractLengthAndYearDerived
        /\ IF mode = "batch" THEN TitleLengthDerived
                             ELSE "title_length" \notin df.cols
        /\ IsTableABC => TableABCGivesA

\* C4 witness: clean_metadata has cleaned rows A, B, C
CleanedTableABC ==
    /\ Cleaned
    /\ mode = "batch"
    /\ IsTableABC
    /\ df.rows[1].title_length = 1

LoaderPcs == {"load_metadata", "load_metadata_retry", "upload", "upload_retry",
              "load_data", "load_data_retry"}

FullRun == <<"load", "clean", "stats", "publications_per_year.png",
             "top_journals.png", "abstract_length_distribution.png",
             "title_vs_abstract.png", "notes">>

BatchEnded == mode = "batch" /\ pc = "exited"

MissingFileExit ==
    /\ exit_code = 1
    /\ messages # <<>>
    /\ stages = <<>>
    /\ attempts = <<>>
    /\ df_raw = None
    /\ df = EmptyFrame

NeededColumns == {"title", "publish_time", "abstract", "journal"}

CountsShown ==
    \/ mode = "batch" /\ \E i \in 1..Len(stages) : stages[i] = "stats"
    \/ mode = "app" /\ pc \in {"search", "done"}

RECURSIVE SumOfCounts(_)
SumOfCounts(t) == IF t = <<>> THEN 0 ELSE Head(t).n + SumOfCounts(Tail(t))

RowsWith(col, v) == {k \in 1..Len(df.rows) : df.rows[k][col] = v}

YearTableRight ==
    /\ \A i \in 1..(Len(pubs_by_year) - 1) :
        pubs_by_year[i].key < pubs_by_year[i + 1].key
    /\ {pubs_by_year[i].key : i \in 1..Len(pubs_by_year)}
           = {df.rows[k].year : k \in 1..Len(df.rows)}
    /\ \A i \in 1..Len(pubs_by_year) :
        pubs_by_year[i].n = Cardinality(RowsWith("year", pubs_by_year[i].key))
    /\ SumOfCounts(pubs_by_year) = Len(df.rows)

JournalTableRight ==
    LET listed == {top_j[i].key : i \in 1..Len(top_j)}
        present == {df.rows[k].journal : k \in 1..Len(df.rows)} \ {NaN}
    IN  /\ Len(top_j) <= TopJournals
        /\ Cardinality(listed) = Len(top_j)
        /\ listed \subseteq present
        /\ Len(top_j) < TopJournals => listed = present
        /\ \A i \in 1..Len(top_j) :
            /\ top_j[i].n = Cardinality(RowsWith("journal", top_j[i].key))
            /\ \A v \in present \ listed :
                Cardinality(RowsWith("journal", v)) <= top_j[i].n

\* the cleaned set is records A and D of section 8 of the specification
IsCleanedAD ==
    /\ Len(df.rows) = 2
    /\ df.rows[1].title = <<"X">> /\ df.rows[1].year = 2020
    /\ IsNa(df.rows[1].journal)
    /\ df.rows[2].title = <<"Z">> /\ df.rows[2].year = 2021
    /\ df.rows[2].journal = <<"J","1">>

\* C7: the per-year table has one entry per year of the cleaned set, by
\* year ascending, each the number of records of the year, the counts
\* summing to the size of the set; the journal table has at most 15
\* entries, each the number of records of the journal, no listed journal
\* rarer than an unlisted one, no entry for the absent journal; records A
\* and D give 2020: 1, 2021: 1 and J1: 1
CountTables ==
    CountsShown =>
        /\ YearTableRight
        /\ JournalTableRight
        /\ IsCleanedAD =>
            /\ pubs_by_year = <<[key |-> 2020, n |-> 1], [key |-> 2021, n |-> 1]>>
            /\ top_j = <<[key |-> <<"J","1">>, n |-> 1]>>

\* C7 witness: basic_stats has counted a cleaned set with more than 15
\* journals, of two years, the later year first in the table
CountedManyJournals ==
    /\ mode = "batch"
    /\ CountsShown
    /\ Len(top_j) = TopJournals
    /\ Cardinality({df.rows[k].journal : k \in 1..Len(df.rows)}) > TopJournals
    /\ Len(pubs_by_year) = 2
    /\ df.rows[1].year = pubs_by_year[2].key

\* the filtered frame has been computed
FilterApplied == "year" \in filtered.cols

\* the records a selection of the two select boxes asks for
Selected ==
    {df.rows[k].idx : k \in {i \in 1..Len(df.rows) :
        /\ selected_year = All \/ PyStrInt(df.rows[i].year) = selected_year
        /\ selected_journal = All \/ df.rows[i].journal = selected_journal}}

FilterExact ==
    /\ {filtered.rows[i].idx : i \in 1..Len(filtered.rows)} = Selected
    /\ Len(filtered.rows) = Cardinality(Selected)
    /\ \A i \in 1..(Len(filtered.rows) - 1) :
        filtered.rows[i].idx < filtered.rows[i + 1].idx

\* C8 as claimed: the filtered subset is the records of the selected year
\* and journal, filtering it again by the same selection changes nothing,
\* and an empty subset is displayed without error
FilterExactIdempotentAndShown ==
    FilterApplied =>
        /\ FilterExact
        /\ ApplyFilter(filtered, selected_year, selected_journal) = filtered
        /\ (filtered.rows = <<>> /\ pc # "table") =>
               /\ err.type # "KeyError"
               /\ table = <<>>

\* b occurs in a, letter case ignored
ContainsIgnoringCase(a, b) ==
    \E k \in 0..(Len(a) - Len(b)) :
        \A i \in 1..Len(b) : LowerChar(a[k + i]) = LowerChar(b[i])

\* the records a search term asks for, an absent abstract being empty
Wanted(kw) ==
    {df.rows[k].idx : k \in {i \in 1..Len(df.rows) :
        \/ ContainsIgnoringCase(df.rows[i].title, kw)
        \/ /\ ~IsNa(df.rows[i].abstract)
           /\ ContainsIgnoringCase(df.rows[i].abstract, kw)}}

\* C9 as claimed: the hits of a search term are the records of the cleaned
\* set whose title or abstract contains it, letter case ignored, an absent
\* abstract containing nothing, and at most the first 200 are displayed
SearchHitsAreTheMatches ==
    (pc = "done" /\ keyword # <<>>) =>
        /\ {hits[i].idx : i \in 1..Len(hits)} = Wanted(keyword)
        /\ Len(hits) = Cardinality(Wanted(keyword))
        /\ Len(hits_table) = (IF Len(hits) < DisplayRows THEN Len(hits)
                              ELSE DisplayRows)

\* C10: the two count charts and the search hits are those of the whole
\* cleaned set whatever the selection of the filters, the histogram is of
\* the abstract lengths of the filtered subset, and the table shows the
\* first 200 rows of the filtered subset
ChartsGlobalHistogramFiltered ==
    /\ pc \in {"search", "done"} =>
        /\ pubs_by_year = YearCounts(df.rows)
        /\ top_j = TopJournalCounts(df.rows)
        /\ hist = [i \in 1..Len(filtered.rows) |-> filtered.rows[i].abstract_length]
        /\ Len(table) = (IF Len(filtered.rows) < DisplayRows
                         THEN Len(filtered.rows) ELSE DisplayRows)
        /\ \A i \in 1..Len(table) :
            /\ table[i].idx = filtered.rows[i].idx
            /\ \A c \in {"publish_time", "title", "journal", "authors"} :
                table[i][c] = filtered.rows[i][c]
    /\ (pc = "done" /\ keyword # <<>>) =>
        /\ {hits[i].idx : i \in 1..Len(hits)}
               = {df.rows[k].idx : k \in {i \in 1..Len(df.rows) :
                                            Matches(df.rows[i], keyword)}}
        /\ \A i \in 1..(Len(hits) - 1) : hits[i].idx < hits[i + 1].idx

\* C10 witness: a year is selected that leaves out a record and keeps
\* more than 200, and a search has hits outside the filtered subset
FilteredViewOfLongTable ==
    /\ pc = "done"
    /\ selected_year # All
    /\ Len(filtered.rows) > DisplayRows
    /\ Len(filtered.rows) < Len(df.rows)
    /\ Len(table) = DisplayRows
    /\ \E i \in 1..Len(hits) :
        \A k \in 1..Len(filtered.rows) : filtered.rows[k].idx # hits[i].idx

====
